---- MODULE Spec2Model ----
(***************************************************************************)
(* The two bootstrap launchers of the application bundle:                  *)
(*   variant "A"  build-scripts/resources/python_embed_stub.c  (PyConfig)  *)
(*   variant "B"  tests/scripts/python_executable_stub.c       (dlopen)    *)
(* A C string is a sequence of one-character strings; a byte that is not   *)
(* ASCII is the token "xFF".  An optional value (a pointer that may be     *)
(* NULL) is a sequence of length 0 (NULL) or 1.                            *)
(***************************************************************************)
EXTENDS Integers, Sequences, FiniteSets, TLC

\* ------------------------------------------------------------------ bounds
MaxArgs == 2
MaxExit == 2
LongSegLen == 300
HugeSegLen == 1010
NearSegLen == 980

\* --------------------------------------------------------------- constants
\* <sys/param.h> on the launcher's platform (macOS): PATH_MAX
PATH_MAX == 1024
\* char framework_path[1024]; char python_home[1024];
FRAMEWORK_PATH_SIZE == 1024

\* "/Frameworks/Python.framework/Versions/Current" (45)
LinkSuffix == <<"/","F","r","a","m","e","w","o","r","k","s","/","P","y","t","h","o","n",".","f","r","a","m","e","w","o","r","k","/","V","e","r","s","i","o","n","s","/","C","u","r","r","e","n","t">>
\* "/Resources/python_site" (22)
SiteSuffix == <<"/","R","e","s","o","u","r","c","e","s","/","p","y","t","h","o","n","_","s","i","t","e">>
\* "/bin/python3" (12)
BinSuffix == <<"/","b","i","n","/","p","y","t","h","o","n","3">>
\* "/lib/python" (11)
LibPython == <<"/","l","i","b","/","p","y","t","h","o","n">>
\* "/lib-dynload" (12)
LibDynload == <<"/","l","i","b","-","d","y","n","l","o","a","d">>
\* "3.10" (4)
DefaultVersion == <<"3",".","1","0">>
\* "/../Frameworks/Python.framework/Versions/3.11/Python" (52)
FrameworkSuffix == <<"/",".",".","/","F","r","a","m","e","w","o","r","k","s","/","P","y","t","h","o","n",".","f","r","a","m","e","w","o","r","k","/","V","e","r","s","i","o","n","s","/","3",".","1","1","/","P","y","t","h","o","n">>
\* "/Users/mhm/Documents/Hobby/Marcut-2/build/MarcutApp.app/Contents/Frameworks/Python.framework/Versions/3.11/Python" (113)
DevFrameworkPath == <<"/","U","s","e","r","s","/","m","h","m","/","D","o","c","u","m","e","n","t","s","/","H","o","b","b","y","/","M","a","r","c","u","t","-","2","/","b","u","i","l","d","/","M","a","r","c","u","t","A","p","p",".","a","p","p","/","C","o","n","t","e","n","t","s","/","F","r","a","m","e","w","o","r","k","s","/","P","y","t","h","o","n",".","f","r","a","m","e","w","o","r","k","/","V","e","r","s","i","o","n","s","/","3",".","1","1","/","P","y","t","h","o","n">>

\* ------------------------------------------------- the environment's inputs
\* "/Frameworks/Python.framework/Versions/" (38)
VersionsDir == <<"/","F","r","a","m","e","w","o","r","k","s","/","P","y","t","h","o","n",".","f","r","a","m","e","w","o","r","k","/","V","e","r","s","i","o","n","s","/">>
\* "/A.app/Contents" (15)
BundleTail == <<"/","A",".","a","p","p","/","C","o","n","t","e","n","t","s">>
\* "/MacOS/marcut" (13)
ExeTail == <<"/","M","a","c","O","S","/","m","a","r","c","u","t">>
\* "/R/py" (5): the test launcher, installed in a Resources directory
ResExe == <<"/","R","/","p","y">>
\* "py": the same file named relative to the working directory
RelExe == <<"p","y">>
\* "-V"
OptV == <<"-","V">>
\* one byte that is not valid in the locale's encoding
BadByteArg == <<"xFF">>

None == <<>>
Some(x) == <<x>>

Segment(n) == <<"/">> \o [i \in 1..n |-> "d"]

\* Contents directories of the bundles considered: a short one, one under a
\* long parent directory, one so deep that the path of its Current link does
\* not fit PATH_MAX, and one whose executable path does not fit PATH_MAX.
ContentsDirs ==
    { BundleTail, Segment(LongSegLen) \o BundleTail,
      Segment(NearSegLen) \o BundleTail, Segment(HugeSegLen) \o BundleTail }

\* What Versions/Current may resolve to in bundle c: a version directory of the
\* bundle, or "/" (a link to the root directory).
CurrentTargets(c) ==
    { c \o VersionsDir \o <<"3",".","1","1">>,
      c \o VersionsDir \o <<"3",".","1","2">>,
      <<"/">> }

ArgPool == { ResExe, RelExe, OptV, BadByteArg }
Argvs == UNION { [1..n -> ArgPool] : n \in 0..MaxArgs }
ExitCodes == 0..MaxExit

\* ------------------------------------------------------------ libc helpers
\* snprintf(buf, size, ...): at most size-1 characters of the formatted text
Snprintf(size, s) == IF Len(s) < size THEN s ELSE SubSeq(s, 1, size - 1)

RECURSIVE LastIndex(_, _, _)
LastIndex(s, c, i) ==
    IF i = 0 THEN 0 ELSE IF s[i] = c THEN i ELSE LastIndex(s, c, i - 1)

RECURSIVE FirstIndex(_, _, _)
FirstIndex(s, c, i) ==
    IF i > Len(s) THEN 0 ELSE IF s[i] = c THEN i ELSE FirstIndex(s, c, i + 1)

StrchrFirst(s, c) == FirstIndex(s, c, 1)
\* strrchr(s, c): index of the last c in s, 0 for NULL
Strrchr(s, c) == LastIndex(s, c, Len(s))

RECURSIVE StripTrailingSlashes(_)
StripTrailingSlashes(s) ==
    IF Len(s) > 1 /\ s[Len(s)] = "/"
    THEN StripTrailingSlashes(SubSeq(s, 1, Len(s) - 1))
    ELSE s

\* dirname(3)
Dirname(path) ==
    IF path = <<>> THEN <<".">>
    ELSE LET t == StripTrailingSlashes(path)
             k == Strrchr(t, "/")
         IN  IF k = 0 THEN <<".">>
             ELSE IF k = 1 THEN <<"/">>
             ELSE StripTrailingSlashes(SubSeq(t, 1, k - 1))

VARIABLES
    variant,          \* which launcher this process image is
    argv,             \* the process argument vector (argc = Len(argv))
    image_path,       \* the path the OS holds for the process image
    fs_symlinks,      \* realpath's table: pairs <<name, canonical path>>
    fs_readable,      \* paths for which access(p, R_OK) succeeds
    pc,
    executable_path, contents_dir, python_home_link, python_home,
    python_version, program_name, python_path,
    config,           \* the PyConfig on main's stack
    status,           \* the PyStatus main holds
    init_seen,        \* the configuration Py_InitializeFromConfig received
    py,               \* calls made into the runtime
    exe_path, framework_path, handle,
    dl,               \* calls made into the dynamic loader
    env_PYTHONHOME,
    exit_code, exit_via

vars == << variant, argv, image_path, fs_symlinks, fs_readable, pc,
           executable_path, contents_dir, python_home_link, python_home,
           python_version, program_name, python_path, config, status,
           init_seen, py, exe_path, framework_path, handle, dl, env_PYTHONHOME,
           exit_code, exit_via >>

environment == << variant, argv, image_path, fs_symlinks, fs_readable >>
a_paths == << executable_path, contents_dir, python_home_link, python_home,
              python_version, program_name, python_path >>
a_runtime == << config, status, init_seen, py >>
b_locals == << exe_path, framework_path, handle, dl, env_PYTHONHOME >>
exit_state == << exit_code, exit_via >>

\* realpath(3): the canonical path of p, NULL (None) when p does not resolve
Realpath(p) ==
    IF \E e \in fs_symlinks : e[1] = p
    THEN Some((CHOOSE e \in fs_symlinks : e[1] = p)[2])
    ELSE None

\* access(p, R_OK) == 0
Access(p) == p \in fs_readable

\* ------------------------------------------------------------ the runtime
StatusOk == [kind |-> "ok", exitcode |-> 0]
StatusError == [kind |-> "error", exitcode |-> 0]
StatusExit(n) == [kind |-> "exit", exitcode |-> n]

\* PyConfig_SetBytesString / PyConfig_SetBytesArgv: success, or an error
\* (memory, undecodable text)
SetStatuses == { StatusOk, StatusError }
\* Py_InitializeFromConfig: success, an error, or an exit request (such as
\* the one the runtime makes after printing its version or help text)
InitStatuses == { StatusOk, StatusError } \cup { StatusExit(n) : n \in ExitCodes }

\* main's status before the first assignment to it
StatusUnset == [kind |-> "unset", exitcode |-> 0]

PyStatus_Exception(st) == st.kind # "ok"

\* Py_ExitStatusException: exit(status.exitcode) for an exit request,
\* a fatal error ending in exit(1) for an error
Py_ExitStatusException(st) ==
    IF st.kind = "exit" THEN st.exitcode ELSE 1

\* Py_DecodeLocale: ASCII decodes to itself, an undecodable byte to a
\* surrogate (surrogateescape)
DecodeByte(b) == IF b = "xFF" THEN "uDCFF" ELSE b
Py_DecodeLocale(s) == [i \in 1..Len(s) |-> DecodeByte(s[i])]

GarbageConfig ==
    [ state |-> "uninit",
      use_environment |-> -1, user_site_directory |-> -1, write_bytecode |-> -1,
      isolated |-> -1, configure_c_stdio |-> -1, buffered_stdio |-> -1,
      program_name |-> None, home |-> None, pythonpath_env |-> None,
      argv |-> <<>> ]

\* PyConfig_InitPythonConfig: the defaults of the regular Python configuration
PyConfig_InitPythonConfig ==
    [ state |-> "live",
      use_environment |-> 1, user_site_directory |-> 1, write_bytecode |-> 1,
      isolated |-> 0, configure_c_stdio |-> 1, buffered_stdio |-> 1,
      program_name |-> None, home |-> None, pythonpath_env |-> None,
      argv |-> <<>> ]

\* PyConfig_Clear: releases the strings and the argument list
PyConfig_Clear(c) ==
    [c EXCEPT !.state = "cleared", !.program_name = None, !.home = None,
              !.pythonpath_env = None, !.argv = <<>>]

\* a call that reads or writes the configuration c
Uses(p, c, counter) ==
    [p EXCEPT ![counter] = @ + 1,
              !.misuse = @ \/ c.state # "live"]

Clears(p, c) ==
    [p EXCEPT !.clear_calls = @ + 1,
              !.misuse = @ \/ c.state # "live"]

NoCalls ==
    [ init_calls |-> 0, set_calls |-> 0, initialize_calls |-> 0,
      clear_calls |-> 0, runmain_calls |-> 0, misuse |-> FALSE,
      result |-> None ]

NoLoads ==
    [ dlopen_calls |-> 0, dlopen_ok |-> 0, dlsym_calls |-> 0,
      dlclose_calls |-> 0, main_calls |-> 0, use_after_close |-> FALSE,
      result |-> None ]

\* ------------------------------------------------------------------- Init
InitLocals ==
    /\ pc = "start"
    /\ executable_path = <<>> /\ contents_dir = <<>> /\ python_home_link = <<>>
    /\ python_home = <<>> /\ python_version = <<>> /\ program_name = <<>>
    /\ python_path = <<>>
    /\ config = GarbageConfig /\ status = StatusUnset
    /\ init_seen = None /\ py = NoCalls
    /\ exe_path = None /\ framework_path = <<>> /\ handle = "none"
    /\ dl = NoLoads /\ env_PYTHONHOME = None
    /\ exit_code = -1 /\ exit_via = "running"

InitA ==
    /\ variant = "A"
    /\ argv \in Argvs
    /\ \E c \in ContentsDirs, current \in BOOLEAN, site \in BOOLEAN :
         /\ image_path = c \o ExeTail
         /\ \E target \in CurrentTargets(c) :
              fs_symlinks =
                IF current /\ Len(c \o LinkSuffix) < PATH_MAX
                THEN { << c \o LinkSuffix, target >> }
                ELSE {}
         /\ fs_readable =
              IF site /\ Len(c \o SiteSuffix) < PATH_MAX
              THEN { c \o SiteSuffix } ELSE {}

InitB ==
    /\ variant = "B"
    /\ argv \in Argvs
    /\ image_path = ResExe
    /\ fs_symlinks = { << ResExe, ResExe >>, << RelExe, ResExe >> }
    /\ fs_readable = {}

Init == InitLocals /\ (InitA \/ InitB)

\* ------------------------------------------------------------- variant A
\* return <code> from main
Return(code) ==
    /\ pc' = "exited" /\ exit_code' = code /\ exit_via' = "return"

\* handle_status clearing the configuration whatever pointer was passed
handle_status_ClearsAlways(st, has_config, c, p, next) ==
    IF PyStatus_Exception(st)
    THEN /\ config' = PyConfig_Clear(c)
         /\ py' = Clears(p, c)
         /\ pc' = "exited"
         /\ exit_code' = Py_ExitStatusException(st)
         /\ exit_via' = "Py_ExitStatusException"
    ELSE /\ config' = c
         /\ py' = p
         /\ pc' = next
         /\ UNCHANGED exit_state

\* handle_status(status, cfg): cfg is the configuration as the caller left
\* it, has_config tells whether a non-NULL pointer to it was passed
handle_status(st, has_config, c, p, next) ==
    IF PyStatus_Exception(st)
    THEN /\ config' = IF has_config THEN PyConfig_Clear(c) ELSE c
         /\ py' = IF has_config THEN Clears(p, c) ELSE p
         /\ pc' = "exited"
         /\ exit_code' = Py_ExitStatusException(st)
         /\ exit_via' = "Py_ExitStatusException"
    ELSE /\ config' = c
         /\ py' = p
         /\ pc' = next
         /\ UNCHANGED exit_state

\* _NSGetExecutablePath(executable_path, &exec_size)
A_GetExecutablePath ==
    /\ variant = "A" /\ pc = "start"
    /\ IF Len(image_path) + 1 > PATH_MAX
       THEN /\ Return(1)
            /\ UNCHANGED executable_path
       ELSE /\ executable_path' = image_path
            /\ pc' = "dirname"
            /\ UNCHANGED exit_state
    /\ UNCHANGED << environment, contents_dir, python_home_link, python_home,
                    python_version, program_name, python_path,
                    a_runtime, b_locals >>

\* app_dir = dirname(executable_path); contents_dir = dirname(app_dir)
\* (dirname returns NULL only for a path longer than PATH_MAX, which
\* executable_path cannot hold, so the NULL test never fails)
A_Dirname ==
    /\ variant = "A" /\ pc = "dirname"
    /\ contents_dir' = Dirname(Dirname(executable_path))
    /\ pc' = "resolve_home"
    /\ UNCHANGED << environment, executable_path, python_home_link, python_home,
                    python_version, program_name, python_path,
                    a_runtime, b_locals, exit_state >>

\* A_ResolveHome with return 0 for the failed resolution
A_ResolveHome_ReturnsZero ==
    /\ variant = "A" /\ pc = "resolve_home"
    /\ LET link == Snprintf(PATH_MAX, contents_dir \o LinkSuffix)
           r == Realpath(link)
       IN  /\ python_home_link' = link
           /\ IF r = None
              THEN /\ Return(0)
                   /\ UNCHANGED python_home
              ELSE /\ python_home' = r[1]
                   /\ pc' = "version"
                   /\ UNCHANGED exit_state
    /\ UNCHANGED << environment, executable_path, contents_dir,
                    python_version, program_name, python_path,
                    a_runtime, b_locals >>

\* snprintf(python_home_link, ...); realpath(python_home_link, python_home)
A_ResolveHome ==
    /\ variant = "A" /\ pc = "resolve_home"
    /\ LET link == Snprintf(PATH_MAX, contents_dir \o LinkSuffix)
           r == Realpath(link)
       IN  /\ python_home_link' = link
           /\ IF r = None
              THEN /\ Return(1)
                   /\ UNCHANGED python_home
              ELSE /\ python_home' = r[1]
                   /\ pc' = "version"
                   /\ UNCHANGED exit_state
    /\ UNCHANGED << environment, executable_path, contents_dir,
                    python_version, program_name, python_path,
                    a_runtime, b_locals >>

\* PythonVersion with strchr in place of strrchr
PythonVersion_FirstSlash(home) ==
    LET k == StrchrFirst(home, "/")
    IN  IF k # 0 /\ k < Len(home)
        THEN SubSeq(home, k + 1, Len(home))
        ELSE DefaultVersion

\* version_component = strrchr(python_home, '/'); the version is what follows
\* it, "3.10" when there is no '/' or nothing follows the last one
PythonVersion(home) ==
    LET k == Strrchr(home, "/")
    IN  IF k # 0 /\ k < Len(home)
        THEN SubSeq(home, k + 1, Len(home))
        ELSE DefaultVersion

A_Version ==
    /\ variant = "A" /\ pc = "version"
    /\ python_version' = PythonVersion(python_home)
    /\ program_name' = Snprintf(PATH_MAX, python_home \o BinSuffix)
    /\ pc' = "check_site"
    /\ UNCHANGED << environment, executable_path, contents_dir, python_home_link,
                    python_home, python_path, a_runtime, b_locals, exit_state >>

\* A_CheckSite with the result of access() ignored
A_CheckSite_Unchecked ==
    /\ variant = "A" /\ pc = "check_site"
    /\ pc' = "build_path"
    /\ UNCHANGED << environment, a_paths, a_runtime, b_locals, exit_state >>

\* access(python_site_path, R_OK)
A_CheckSite ==
    /\ variant = "A" /\ pc = "check_site"
    /\ LET python_site_path == Snprintf(PATH_MAX, contents_dir \o SiteSuffix)
       IN  IF ~Access(python_site_path)
           THEN Return(1)
           ELSE pc' = "build_path" /\ UNCHANGED exit_state
    /\ UNCHANGED << environment, a_paths, a_runtime, b_locals >>

\* "%s/Resources/python_site:%s/lib/python%s:%s/lib/python%s/lib-dynload"
PythonPathFormat(contents, home, version) ==
    contents \o SiteSuffix \o <<":">>
      \o home \o LibPython \o version \o <<":">>
      \o home \o LibPython \o version \o LibDynload

A_BuildPath ==
    /\ variant = "A" /\ pc = "build_path"
    /\ python_path' =
         Snprintf(PATH_MAX, PythonPathFormat(contents_dir, python_home, python_version))
    /\ pc' = "init_config"
    /\ UNCHANGED << environment, executable_path, contents_dir, python_home_link,
                    python_home, python_version, program_name,
                    a_runtime, b_locals, exit_state >>

\* PyConfig_InitPythonConfig(&config) and the three flags that follow it
A_InitConfig ==
    /\ variant = "A" /\ pc = "init_config"
    /\ config' = [PyConfig_InitPythonConfig EXCEPT
                    !.use_environment = 0,
                    !.user_site_directory = 0,
                    !.write_bytecode = 0]
    /\ py' = [py EXCEPT !.init_calls = @ + 1]
    /\ pc' = "set_program_name"
    /\ UNCHANGED << environment, a_paths, status, init_seen, b_locals, exit_state >>

\* PyConfig_SetBytesString(&config, &config.<field>, str): on success the
\* field holds the decoded string
PyConfig_SetBytesString(c, field, str, st) ==
    IF st.kind = "ok"
    THEN [c EXCEPT ![field] = Some(Py_DecodeLocale(str))]
    ELSE c

\* status = PyConfig_SetBytesString(&config, &config.program_name, program_name);
\* handle_status(status, &config)
A_SetProgramName ==
    /\ variant = "A" /\ pc = "set_program_name"
    /\ \E st \in SetStatuses :
         /\ status' = st
         /\ handle_status(st, TRUE,
                       PyConfig_SetBytesString(config, "program_name", program_name, st),
                       Uses(py, config, "set_calls"), "set_home")
    /\ UNCHANGED << environment, a_paths, init_seen, b_locals >>

\* status = PyConfig_SetBytesString(&config, &config.home, python_home);
\* handle_status(status, &config)
A_SetHome ==
    /\ variant = "A" /\ pc = "set_home"
    /\ \E st \in SetStatuses :
         /\ status' = st
         /\ handle_status(st, TRUE,
                       PyConfig_SetBytesString(config, "home", python_home, st),
                       Uses(py, config, "set_calls"), "set_path")
    /\ UNCHANGED << environment, a_paths, init_seen, b_locals >>

\* status = PyConfig_SetBytesString(&config, &config.pythonpath_env, python_path);
\* handle_status(status, &config)
A_SetPythonPath ==
    /\ variant = "A" /\ pc = "set_path"
    /\ \E st \in SetStatuses :
         /\ status' = st
         /\ handle_status(st, TRUE,
                       PyConfig_SetBytesString(config, "pythonpath_env", python_path, st),
                       Uses(py, config, "set_calls"), "set_flags")
    /\ UNCHANGED << environment, a_paths, init_seen, b_locals >>

\* IsolationFlags with isolated left at its default
IsolationFlags_NotIsolated(c) ==
    [c EXCEPT !.use_environment = 0,
              !.configure_c_stdio = 0, !.buffered_stdio = 0]

\* config.isolated = 1; config.use_environment = 0;
\* config.configure_c_stdio = 0; config.buffered_stdio = 0
IsolationFlags(c) ==
    [c EXCEPT !.isolated = 1, !.use_environment = 0,
              !.configure_c_stdio = 0, !.buffered_stdio = 0]

A_SetFlags ==
    /\ variant = "A" /\ pc = "set_flags"
    /\ config' = IsolationFlags(config)
    /\ pc' = "set_argv"
    /\ UNCHANGED << environment, a_paths, status, init_seen, py, b_locals, exit_state >>

\* PyConfig_SetBytesArgv(&config, argc, argv): every entry decoded, in order
PyConfig_SetBytesArgv(c, args, st) ==
    IF st.kind = "ok"
    THEN [c EXCEPT !.argv = [i \in 1..Len(args) |-> Py_DecodeLocale(args[i])]]
    ELSE c

\* A_SetArgv calling PyConfig_SetBytesArgv(&config, argc - 1, argv + 1)
A_SetArgv_DropsProgramName ==
    /\ variant = "A" /\ pc = "set_argv"
    /\ \E st \in SetStatuses :
         /\ status' = st
         /\ handle_status(st, TRUE,
                       PyConfig_SetBytesArgv(config,
                           IF argv = <<>> THEN argv ELSE Tail(argv), st),
                       Uses(py, config, "set_calls"), "initialize")
    /\ UNCHANGED << environment, a_paths, init_seen, b_locals >>

\* status = PyConfig_SetBytesArgv(&config, argc, argv); handle_status(status, &config)
A_SetArgv ==
    /\ variant = "A" /\ pc = "set_argv"
    /\ \E st \in SetStatuses :
         /\ status' = st
         /\ handle_status(st, TRUE,
                       PyConfig_SetBytesArgv(config, argv, st),
                       Uses(py, config, "set_calls"), "initialize")
    /\ UNCHANGED << environment, a_paths, init_seen, b_locals >>

\* status = Py_InitializeFromConfig(&config); PyConfig_Clear(&config);
\* handle_status(status, NULL)
A_Initialize ==
    /\ variant = "A" /\ pc = "initialize"
    /\ init_seen' = Some(config)
    /\ \E st \in InitStatuses :
         /\ status' = st
         /\ handle_status(st, FALSE,
                       PyConfig_Clear(config),
                       Clears(Uses(py, config, "initialize_calls"), config),
                       "run_main")
    /\ UNCHANGED << environment, a_paths, b_locals >>

\* exit_code = Py_RunMain(); return exit_code
A_RunMain ==
    /\ variant = "A" /\ pc = "run_main"
    /\ \E result \in ExitCodes :
         /\ py' = [py EXCEPT !.runmain_calls = @ + 1, !.result = Some(result)]
         /\ Return(result)
    /\ UNCHANGED << environment, a_paths, config, status, init_seen, b_locals >>

\* ------------------------------------------------------------- variant B
\* B_Realpath with the development path standing in for an unresolved path
B_Realpath_Fallback ==
    /\ variant = "B" /\ pc = "start"
    /\ LET r == IF Len(argv) = 0 THEN None ELSE Realpath(argv[1])
       IN  /\ exe_path' = r
           /\ IF r = None
              THEN /\ framework_path' = DevFrameworkPath
                   /\ pc' = "dlopen"
              ELSE /\ pc' = "framework_path"
                   /\ UNCHANGED framework_path
    /\ UNCHANGED << environment, a_paths, a_runtime, handle, dl,
                    env_PYTHONHOME, exit_state >>

\* char *exe_path = realpath(argv[0], NULL); argv[argc] is NULL
B_Realpath ==
    /\ variant = "B" /\ pc = "start"
    /\ LET r == IF Len(argv) = 0 THEN None ELSE Realpath(argv[1])
       IN  /\ exe_path' = r
           /\ IF r = None
              THEN Return(1)
              ELSE pc' = "framework_path" /\ UNCHANGED exit_state
    /\ UNCHANGED << environment, a_paths, a_runtime, framework_path, handle, dl,
                    env_PYTHONHOME >>

\* last_slash = strrchr(exe_path, '/'): the library path next to the
\* executable's directory, or the development path when there is no '/'
FrameworkPath(exe) ==
    LET last_slash == Strrchr(exe, "/")
    IN  IF last_slash # 0
        THEN Snprintf(FRAMEWORK_PATH_SIZE,
                      SubSeq(exe, 1, last_slash - 1) \o FrameworkSuffix)
        ELSE DevFrameworkPath

\* strncpy(python_home, framework_path, sizeof(python_home)), cut at its last '/'
PythonHomeOf(path) ==
    LET copy == SubSeq(path, 1, IF Len(path) < FRAMEWORK_PATH_SIZE
                                THEN Len(path) ELSE FRAMEWORK_PATH_SIZE)
        last_slash_py == Strrchr(copy, "/")
    IN  IF last_slash_py # 0 THEN SubSeq(copy, 1, last_slash_py - 1) ELSE copy

\* framework_path, free(exe_path), python_home, setenv("PYTHONHOME", python_home, 1)
B_FrameworkPath ==
    /\ variant = "B" /\ pc = "framework_path"
    /\ framework_path' = FrameworkPath(exe_path[1])
    /\ python_home' = PythonHomeOf(framework_path')
    /\ env_PYTHONHOME' = Some(python_home')
    /\ pc' = "dlopen"
    /\ UNCHANGED << environment, executable_path, contents_dir, python_home_link,
                    python_version, program_name, python_path, a_runtime,
                    exe_path, handle, dl, exit_state >>

\* void *handle = dlopen(framework_path, RTLD_LAZY)
B_Dlopen ==
    /\ variant = "B" /\ pc = "dlopen"
    /\ \E loaded \in BOOLEAN :
         IF ~loaded
         THEN /\ dl' = [dl EXCEPT !.dlopen_calls = @ + 1]
              /\ Return(1)
              /\ UNCHANGED handle
         ELSE /\ dl' = [dl EXCEPT !.dlopen_calls = @ + 1, !.dlopen_ok = @ + 1]
              /\ handle' = "open"
              /\ pc' = "dlsym"
              /\ UNCHANGED exit_state
    /\ UNCHANGED << environment, a_paths, a_runtime, exe_path, framework_path,
                    env_PYTHONHOME >>

\* dlclose(handle)
Dlclose(d, h) ==
    [d EXCEPT !.dlclose_calls = @ + 1,
              !.use_after_close = @ \/ h # "open"]

\* B_Dlsym returning from the failed lookup without dlclose
B_Dlsym_Leak ==
    /\ variant = "B" /\ pc = "dlsym"
    /\ \E found \in BOOLEAN :
         LET d == [dl EXCEPT !.dlsym_calls = @ + 1,
                             !.use_after_close = @ \/ handle # "open"]
         IN  /\ dl' = d
             /\ UNCHANGED handle
             /\ IF ~found
                THEN Return(1)
                ELSE pc' = "py_main" /\ UNCHANGED exit_state
    /\ UNCHANGED << environment, a_paths, a_runtime, exe_path, framework_path,
                    env_PYTHONHOME >>

\* Py_Main = dlsym(handle, "Py_Main"); on failure dlclose(handle); return 1
B_Dlsym ==
    /\ variant = "B" /\ pc = "dlsym"
    /\ \E found \in BOOLEAN :
         LET d == [dl EXCEPT !.dlsym_calls = @ + 1,
                             !.use_after_close = @ \/ handle # "open"]
         IN  IF ~found
             THEN /\ dl' = Dlclose(d, handle)
                  /\ handle' = "closed"
                  /\ Return(1)
             ELSE /\ dl' = d
                  /\ pc' = "py_main"
                  /\ UNCHANGED << handle, exit_state >>
    /\ UNCHANGED << environment, a_paths, a_runtime, exe_path, framework_path,
                    env_PYTHONHOME >>

\* int result = Py_Main(argc, argv)
B_PyMain ==
    /\ variant = "B" /\ pc = "py_main"
    /\ \E result \in ExitCodes :
         dl' = [dl EXCEPT !.main_calls = @ + 1,
                          !.use_after_close = @ \/ handle # "open",
                          !.result = Some(result)]
    /\ pc' = "dlclose"
    /\ UNCHANGED << environment, a_paths, a_runtime, exe_path, framework_path,
                    handle, env_PYTHONHOME, exit_state >>

\* B_Close with return 0 in place of return result
B_Close_ReturnsZero ==
    /\ variant = "B" /\ pc = "dlclose"
    /\ dl' = Dlclose(dl, handle)
    /\ handle' = "closed"
    /\ Return(0)
    /\ UNCHANGED << environment, a_paths, a_runtime, exe_path, framework_path,
                    env_PYTHONHOME >>

\* dlclose(handle); return result
B_Close ==
    /\ variant = "B" /\ pc = "dlclose"
    /\ dl' = Dlclose(dl, handle)
    /\ handle' = "closed"
    /\ Return(dl.result[1])
    /\ UNCHANGED << environment, a_paths, a_runtime, exe_path, framework_path,
                    env_PYTHONHOME >>

Next ==
    \/ A_GetExecutablePath \/ A_Dirname \/ A_ResolveHome \/ A_Version
    \/ A_CheckSite \/ A_BuildPath \/ A_InitConfig \/ A_SetProgramName
    \/ A_SetHome \/ A_SetPythonPath \/ A_SetFlags \/ A_SetArgv
    \/ A_Initialize \/ A_RunMain
    \/ B_Realpath \/ B_FrameworkPath \/ B_Dlopen \/ B_Dlsym \/ B_PyMain
    \/ B_Close

Spec == Init /\ [][Next]_vars

\* =================================================================== claims
\* The bundle the process image lives in, and what its file system holds
ContentsOf == CHOOSE c \in ContentsDirs : image_path = c \o ExeTail
ExecutablePathFails == Len(image_path) >= PATH_MAX
HomeFails == Realpath(ContentsOf \o LinkSuffix) = None
SiteFails == (ContentsOf \o SiteSuffix) \notin fs_readable
PreconditionFailsA ==
    variant = "A" /\ (ExecutablePathFails \/ HomeFails \/ SiteFails)

RealpathFailsB == variant = "B" /\ (Len(argv) = 0 \/ Realpath(argv[1]) = None)
DlopenFailed == variant = "B" /\ dl.dlopen_calls = 1 /\ dl.dlopen_ok = 0
DlsymFailed ==
    variant = "B" /\ dl.dlsym_calls = 1 /\ dl.main_calls = 0 /\ pc = "exited"

\* Py_EncodeLocale: the inverse of Py_DecodeLocale
EncodeChar(w) == IF w = "uDCFF" THEN "xFF" ELSE w
Py_EncodeLocale(w) == [i \in 1..Len(w) |-> EncodeChar(w[i])]

HasSlash(s) == \E i \in 1..Len(s) : s[i] = "/"

\* C1: in variant A, when a local precondition fails (executable path, home
\* resolution, python_site), no call on a runtime configuration is ever made
\* and the configuration on the stack is never initialised.
C1_NoConfigOnPreconditionFailure ==
    PreconditionFailsA =>
        /\ py = NoCalls
        /\ config = GarbageConfig
        /\ init_seen = None

C1_Witness ==
    /\ PreconditionFailsA /\ ~ExecutablePathFails /\ ~HomeFails /\ SiteFails
    /\ pc = "exited"

\* C2: in variant B the library handle is released exactly once for each
\* successful dlopen (at most one), on every exit path; nothing uses the handle
\* after its release; a failed dlsym releases it before exit code 1.
C2_HandleReleasedExactlyOnce ==
    variant = "B" =>
        /\ dl.dlopen_ok <= 1
        /\ dl.dlclose_calls <= dl.dlopen_ok
        /\ ~dl.use_after_close
        /\ pc = "exited" => dl.dlclose_calls = dl.dlopen_ok
        /\ DlsymFailed => (dl.dlclose_calls = 1 /\ handle = "closed" /\ exit_code = 1)

C2_Witness == DlsymFailed /\ dl.dlclose_calls = 1

\* C3: in variant A, once PyConfig_InitPythonConfig has run, the configuration
\* is consumed by Py_InitializeFromConfig at most once, is cleared at most once,
\* is cleared exactly once by the time the process exits or reaches Py_RunMain,
\* and no call uses it after it was cleared.
C3_ConfigClearedExactlyOnce ==
    (variant = "A" /\ py.init_calls >= 1) =>
        /\ py.init_calls = 1
        /\ py.initialize_calls <= 1
        /\ py.clear_calls <= 1
        /\ ~py.misuse
        /\ pc \in {"exited", "run_main"} =>
              (py.clear_calls = 1 /\ config.state = "cleared")

C3_Witness ==
    /\ variant = "A" /\ pc = "exited" /\ exit_via = "Py_ExitStatusException"
    /\ py.initialize_calls = 1 /\ py.clear_calls = 1

\* C4 as stated: in variant B, when realpath(argv[0]) fails the launcher
\* substitutes the development path and goes on to the load step.
C4_FallbackOnRealpathFailure ==
    (RealpathFailsB /\ pc = "exited") =>
        (framework_path = DevFrameworkPath /\ dl.dlopen_calls >= 1)

\* C4 amended: in variant B, when realpath(argv[0]) fails the launcher exits
\* with code 1 without computing a library path or reaching the load step;
\* the development path is substituted only for a resolved path without '/',
\* so never for the absolute path realpath returns.
C4_RealpathFailureExits ==
    variant = "B" =>
        /\ RealpathFailsB =>
              /\ framework_path = <<>> /\ env_PYTHONHOME = None /\ dl = NoLoads
              /\ pc \in {"start", "exited"}
              /\ pc = "exited" => exit_code = 1
        /\ framework_path # DevFrameworkPath

C4_Witness == RealpathFailsB /\ pc = "exited" /\ Len(argv) >= 1

\* C5: the search path handed to the runtime is exactly siteDir, stdlib and
\* lib-dynload joined by ':', complete, whatever the lengths of the paths.
C5_SearchPathComplete ==
    (variant = "A" /\ init_seen # None) =>
        LET siteDir == ContentsOf \o SiteSuffix
            stdlib == python_home \o LibPython \o python_version
            dynload == stdlib \o LibDynload
        IN  init_seen[1].pythonpath_env =
              Some(Py_DecodeLocale(siteDir \o <<":">> \o stdlib \o <<":">> \o dynload))

\* C6: exit code 1 for every local precondition failure of either variant;
\* the entry point's result, unchanged, when the entry point was invoked.
C6_ExitCodes ==
    pc = "exited" =>
        /\ PreconditionFailsA => exit_code = 1
        /\ (variant = "A" /\ py.runmain_calls >= 1) => exit_code = py.result[1]
        /\ (RealpathFailsB \/ DlopenFailed \/ DlsymFailed) => exit_code = 1
        /\ (variant = "B" /\ dl.main_calls >= 1) => exit_code = dl.result[1]

C6_Witness ==
    /\ variant = "B" /\ pc = "exited" /\ dl.main_calls = 1
    /\ exit_code = MaxExit /\ exit_code # 1

\* C7 as stated: every run of variant A that ends before Py_RunMain ends with
\* a non-zero exit code.
C7_AbortIsNonZero ==
    (variant = "A" /\ pc = "exited" /\ py.runmain_calls = 0) => exit_code # 0

\* C7 amended: a run of variant A that ends before Py_RunMain ends with a
\* non-zero exit code, unless Py_InitializeFromConfig returned an exit request
\* whose exit code is 0, which Py_ExitStatusException passes to exit().
C7_AbortIsNonZeroOrExitRequest ==
    (variant = "A" /\ pc = "exited" /\ py.runmain_calls = 0) =>
        \/ exit_code # 0
        \/ /\ exit_via = "Py_ExitStatusException"
           /\ status = StatusExit(0)
           /\ py.initialize_calls = 1

C7_Witness ==
    /\ variant = "A" /\ pc = "exited" /\ py.runmain_calls = 0
    /\ exit_via = "Py_ExitStatusException" /\ status.kind = "error"
    /\ exit_code # 0

\* C8: for a bundle whose Versions/Current resolves, variant A takes the
\* resolved path as the home and hands it to the runtime; the version is the
\* home's final path segment, and "3.10" exactly when that segment is empty.
C8_HomeAndVersion ==
    (variant = "A" /\ python_version # <<>>) =>
        LET n == Len(python_home)
            v == Len(python_version)
        IN  /\ Some(python_home) = Realpath(ContentsOf \o LinkSuffix)
            /\ IF ~HasSlash(python_home) \/ python_home[n] = "/"
               THEN python_version = DefaultVersion
               ELSE /\ ~HasSlash(python_version)
                    /\ v < n
                    /\ python_home[n - v] = "/"
                    /\ SubSeq(python_home, n - v + 1, n) = python_version
            /\ init_seen # None =>
                  init_seen[1].home = Some(Py_DecodeLocale(python_home))

C8_Witness ==
    /\ variant = "A" /\ init_seen # None
    /\ python_home = ContentsOf \o VersionsDir \o <<"3",".","1","2">>
    /\ python_version = <<"3",".","1","2">>

\* C9: the argument list the runtime configuration holds when
\* Py_InitializeFromConfig is called has the count, the entries and the order
\* of the process argument vector, and the launcher never writes the vector.
C9_ArgvForwarded ==
    /\ [](( variant = "A" /\ init_seen # None) =>
            /\ Len(init_seen[1].argv) = Len(argv)
            /\ \A i \in 1..Len(argv) :
                 Py_EncodeLocale(init_seen[1].argv[i]) = argv[i])
    /\ [][argv' = argv]_vars

C9_Witness ==
    /\ variant = "A" /\ init_seen # None
    /\ Len(argv) = 2 /\ argv[1] = OptV /\ argv[2] = BadByteArg
    /\ init_seen[1].argv = << OptV, <<"uDCFF">> >>

\* C10: whenever Py_InitializeFromConfig is called, every isolation flag is
\* in force and program name, home and search path are set.
C10_IsolatedAtInitialize ==
    (variant = "A" /\ init_seen # None) =>
        LET c == init_seen[1]
        IN  /\ c.state = "live"
            /\ c.use_environment = 0 /\ c.user_site_directory = 0
            /\ c.write_bytecode = 0 /\ c.configure_c_stdio = 0
            /\ c.buffered_stdio = 0 /\ c.isolated = 1
            /\ c.program_name = Some(Py_DecodeLocale(program_name))
            /\ c.home = Some(Py_DecodeLocale(python_home))
            /\ c.pythonpath_env = Some(Py_DecodeLocale(python_path))

C10_Witness ==
    /\ variant = "A" /\ init_seen # None /\ pc = "run_main"
    /\ init_seen[1].isolated = 1

====
